---- MODULE Spec2Model ----
(***************************************************************************)
(* Model of the InCC tree-walking interpreter (src/interpreter.py):        *)
(* the runtime values, the scope chain, closures, structs, the recursive   *)
(* evaluator `eval` and the file/REPL driver `main`.                        *)
(*                                                                         *)
(* The evaluator is a recursive Python function with side effects on the   *)
(* scopes; it is modelled by the recursive operator eval(expr, env, h)     *)
(* that threads the store h through every sub-evaluation in the order the  *)
(* code performs them and returns an outcome record                        *)
(*     [k |-> "ok" or the name of the raised exception, v |-> value, h].   *)
(* The state machine is main(): the defines, the optional file run and the *)
(* REPL loop, one action per input read.                                   *)
(*                                                                         *)
(* Environment and Value (module environment) and the parser are not part  *)
(* of the sources at hand; the scope operations follow the specification   *)
(* and the way interpreter.py uses them.  Builtin operand combinations     *)
(* whose numpy or string result is not computed here give the outcome      *)
(* "Unmodelled"; NoUnmodelled states that no input of the model reaches    *)
(* one.                                                                    *)
(***************************************************************************)
EXTENDS Integers, Sequences, FiniteSets, TLC

\* ------------------------------------------------------------------ bounds
\* number of inputs the REPL reads in one run
MaxInputs == 2

\* ------------------------------------------------------------ syntax tree
\* One record shape per Expression variant matched in eval; every variant
\* has its own set of field names.
NoExpr == [tag |-> "None"]
NumberLiteral(value) == [tag |-> "NumberLiteral", num |-> value]
BoolLiteral(value) == [tag |-> "BoolLiteral", tok |-> value]
StringLiteral(value) == [tag |-> "StringLiteral", str |-> value]
CharLiteral(value) == [tag |-> "CharLiteral", chr |-> value]
ArrayLiteral(elements) == [tag |-> "ArrayLiteral", elements |-> elements]
AssignExpression(name, expression) ==
    [tag |-> "AssignExpression", name |-> name, expression |-> expression]
VariableExpression(name) == [tag |-> "VariableExpression", name |-> name]
LockExpression(lock, body) == [tag |-> "LockExpression", lock |-> lock, body |-> body]
LocalExpression(assignment, body) ==
    [tag |-> "LocalExpression", assignment |-> assignment, body |-> body]
SequenceExpression(expressions) ==
    [tag |-> "SequenceExpression", expressions |-> expressions]
LoopExpression(count, body) == [tag |-> "LoopExpression", count |-> count, body |-> body]
WhileExpression(condition, body) ==
    [tag |-> "WhileExpression", condition |-> condition, wbody |-> body]
DoWhileExpression(condition, body) ==
    [tag |-> "DoWhileExpression", condition |-> condition, dbody |-> body]
IfExpression(condition, then_body, else_body) ==
    [tag |-> "IfExpression", condition |-> condition,
     then_body |-> then_body, else_body |-> else_body]
LambdaExpression(arg_names, body, rest_args) ==
    [tag |-> "LambdaExpression", arg_names |-> arg_names,
     body |-> body, rest_args |-> rest_args]
CallExpression(f, arg_exprs) == [tag |-> "CallExpression", f |-> f, arg_exprs |-> arg_exprs]
StructExpression(initializers, parent_expr) ==
    [tag |-> "StructExpression", initializers |-> initializers,
     parent_expr |-> parent_expr]
MemberAccessExpression(expr, member) ==
    [tag |-> "MemberAccessExpression", expr |-> expr, member |-> member]

\* ----------------------------------------------------------------- values
\* Python values the evaluator produces.  A Number is a float; the model
\* keeps it as a normalised fraction p/q (q > 0) so that `/` is computed.
NoneV == [t |-> "none"]
BoolV(b) == [t |-> "bool", b |-> b]
StrV(s) == [t |-> "str", s |-> s]
ArrayV(elems) == [t |-> "array", elems |-> elems]
NilV == [t |-> "tuple0", nil |-> TRUE]
PairV(a, b) == [t |-> "tuple2", head |-> a, tail |-> b]
PrimV(name) == [t |-> "builtin", prim |-> name]

Abs(x) == IF x < 0 THEN -x ELSE x

RECURSIVE GCD(_, _)
GCD(a, b) == IF b = 0 THEN a ELSE GCD(b, a % b)

Frac(p, q) ==
    LET g == GCD(Abs(p), Abs(q))
        s == IF q < 0 THEN -1 ELSE 1
    IN [t |-> "num", p |-> (s * p) \div g, q |-> (s * q) \div g]

NumV(k) == [t |-> "num", p |-> k, q |-> 1]

\* float(value) of a NumberLiteral token (src/interpreter.py:71)
Float(value) == NumV(value)

\* The Closure dataclass (src/interpreter.py:22-27)
Closure(parent_env, arg_names, body, rest_args) ==
    [t |-> "closure", parent_env |-> parent_env, arg_names |-> arg_names,
     body |-> body, rest_args |-> rest_args]

\* The Struct dataclass (src/interpreter.py:47-50): vars is a reference to a
\* dict (its address in the store), parent a Struct value or None.
Struct(vars, parent) == [t |-> "struct", vars |-> vars, parent |-> parent]

\* Python truthiness of a value (bool(v)); arrays are handled by the callers
Truthy(v) ==
    CASE v.t = "none" -> FALSE
      [] v.t = "bool" -> v.b
      [] v.t = "num" -> v.p # 0
      [] v.t = "tuple0" -> FALSE
      [] v.t = "str" -> v.s # ""
      [] OTHER -> TRUE

\* ------------------------------------------------------------------ store
\* h.dicts[d]   : the dict object d, a function name -> value of the Cell
\* h.scopes[s]  : the Environment object s
\*                [vars |-> dict address, parent |-> scope address or 0,
\*                 containing_struct |-> Struct value or None]
\* h.calls      : history of the closure calls made (the closure, the
\*                argument values, the caller's scope, the scope pushed)
EmptyStore ==
    [dicts |-> << [n \in {} |-> NoneV] >>,
     scopes |-> << [vars |-> 1, parent |-> 0, containing_struct |-> NoneV] >>,
     calls |-> << >>]

\* Environment() : the root scope is scope 1 of the store
RootEnv == 1

Names(h, d) == DOMAIN h.dicts[d]

\* Environment.push(*names): a new scope under env, each name declared with
\* an absent Cell; gives the store and the address of the new scope.
push(h, env, names) ==
    LET d == Len(h.dicts) + 1
        s == Len(h.scopes) + 1
    IN [h |-> [h EXCEPT !.dicts = Append(@, [n \in names |-> NoneV]),
                        !.scopes = Append(@, [vars |-> d, parent |-> env,
                                              containing_struct |-> NoneV])],
        env |-> s]

\* name in env : own Cells, then the parent chain
RECURSIVE EnvContains(_, _, _)
EnvContains(h, env, name) ==
    IF name \in Names(h, h.scopes[env].vars) THEN TRUE
    ELSE IF h.scopes[env].parent # 0 THEN EnvContains(h, h.scopes[env].parent, name)
    ELSE FALSE

\* env[name] : the dict holding the Cell of name: own Cells, then the parent
\* chain; at the root the Cell is created (define() on the empty
\* Environment() relies on it, src/interpreter.py:182-189).
RECURSIVE EnvLookup(_, _, _)
EnvLookup(h, env, name) ==
    IF name \in Names(h, h.scopes[env].vars) THEN h.scopes[env].vars
    ELSE IF h.scopes[env].parent # 0 THEN EnvLookup(h, h.scopes[env].parent, name)
    ELSE h.scopes[env].vars

\* env[name].value
EnvGet(h, env, name) ==
    LET d == EnvLookup(h, env, name)
    IN IF name \in Names(h, d) THEN h.dicts[d][name] ELSE NoneV

\* env[name].value = val
EnvSet(h, env, name, val) ==
    LET d == EnvLookup(h, env, name)
    IN [h EXCEPT !.dicts[d] = (name :> val) @@ @]

\* env.containing_struct = s
SetContainingStruct(h, env, s) == [h EXCEPT !.scopes[env].containing_struct = s]

\* --------------------------------------------------------------- builtins
\* Outcome of a host function: k is "ok" or the exception raised.  The kind
\* "Unmodelled" marks operand combinations outside the modelled fragment
\* (NoUnmodelled checks that no evaluation of the model reaches one).
Ok(v) == [k |-> "ok", v |-> v]
Raise(e) == [k |-> e, v |-> NoneV]

IsNumeric(v) == v.t \in {"num", "bool"}

\* a Python bool used as a number is 1 or 0
AsFrac(v) == IF v.t = "bool" THEN (IF v.b THEN NumV(1) ELSE NumV(0)) ELSE v

FAdd(a, b) == Frac(a.p * b.q + b.p * a.q, a.q * b.q)
FSub(a, b) == Frac(a.p * b.q - b.p * a.q, a.q * b.q)
FMul(a, b) == Frac(a.p * b.p, a.q * b.q)
FLess(a, b) == a.p * b.q < b.p * a.q

\* int(v): truncation toward zero
Trunc(a) == IF a.p >= 0 THEN a.p \div a.q ELSE -((-a.p) \div a.q)

\* v1 / v2 on two Python numbers: a zero divisor raises ZeroDivisionError
ScalarDiv(a, b) ==
    IF b.p = 0 THEN Raise("ZeroDivisionError")
    ELSE Ok(Frac(a.p * b.q, a.q * b.p))

ScalarArith(op, a, b) ==
    CASE op = "+" -> Ok(FAdd(a, b))
      [] op = "-" -> Ok(FSub(a, b))
      [] op = "*" -> Ok(FMul(a, b))
      [] op = "/" -> ScalarDiv(a, b)

AllNumeric(s) == \A i \in 1..Len(s) : IsNumeric(s[i])

\* v1 op v2 for the arithmetic builtins (src/interpreter.py:189-192): Python
\* numbers, or numpy's elementwise operation when an operand is an array.
Arith(op, v1, v2) ==
    IF IsNumeric(v1) /\ IsNumeric(v2) THEN ScalarArith(op, AsFrac(v1), AsFrac(v2))
    ELSE IF v1.t = "array" /\ IsNumeric(v2) /\ AllNumeric(v1.elems)
              /\ (op = "/" => AsFrac(v2).p # 0) THEN
        Ok(ArrayV([i \in 1..Len(v1.elems) |->
                     ScalarArith(op, AsFrac(v1.elems[i]), AsFrac(v2)).v]))
    ELSE IF IsNumeric(v1) /\ v2.t = "array" /\ AllNumeric(v2.elems)
              /\ (op = "/" => \A i \in 1..Len(v2.elems) : AsFrac(v2.elems[i]).p # 0) THEN
        Ok(ArrayV([i \in 1..Len(v2.elems) |->
                     ScalarArith(op, AsFrac(v1), AsFrac(v2.elems[i])).v]))
    ELSE IF v1.t \in {"none", "closure", "builtin"} /\ (IsNumeric(v2) \/ v2.t = "none")
        THEN Raise("TypeError")
    ELSE IF v2.t \in {"none", "closure", "builtin"} /\ (IsNumeric(v1) \/ v1.t = "none")
        THEN Raise("TypeError")
    ELSE IF v1.t = "struct" /\ IsNumeric(v2) THEN Raise("TypeError")
    ELSE IF v2.t = "struct" /\ IsNumeric(v1) THEN Raise("TypeError")
    ELSE Raise("Unmodelled")

Compare(op, v1, v2) ==
    IF IsNumeric(v1) /\ IsNumeric(v2) THEN
        LET a == AsFrac(v1)
            b == AsFrac(v2)
        IN Ok(BoolV(CASE op = "<" -> FLess(a, b)
                      [] op = ">" -> FLess(b, a)
                      [] op = "<=" -> ~FLess(b, a)
                      [] op = ">=" -> ~FLess(a, b)))
    ELSE IF v1.t \in {"none", "closure", "builtin", "struct"}
            /\ (IsNumeric(v2) \/ v2.t = "none") THEN Raise("TypeError")
    ELSE IF v2.t \in {"none", "closure", "builtin", "struct"}
            /\ (IsNumeric(v1) \/ v1.t = "none") THEN Raise("TypeError")
    ELSE Raise("Unmodelled")

\* v1 == v2 for values that are not arrays
PyEq(v1, v2) ==
    IF IsNumeric(v1) /\ IsNumeric(v2) THEN AsFrac(v1) = AsFrac(v2) ELSE v1 = v2

Equal(negate, v1, v2) ==
    IF v1.t \in {"array", "struct"} \/ v2.t \in {"array", "struct"} THEN Raise("Unmodelled")
    ELSE Ok(BoolV(IF negate THEN ~PyEq(v1, v2) ELSE PyEq(v1, v2)))

\* make_list(*elem) (src/interpreter.py:164-167)
RECURSIVE make_list(_)
make_list(elem) ==
    IF Len(elem) = 0 THEN NilV ELSE PairV(elem[1], make_list(Tail(elem)))

\* np.array(elem): numpy converts the elements to one common type, so a
\* bool among floats becomes 1.0 or 0.0 (src/interpreter.py:36, 178-179)
make_array(elem) ==
    IF \A i \in 1..Len(elem) : elem[i].t \in {"num", "bool"} THEN
        IF \E i \in 1..Len(elem) : elem[i].t = "num"
        THEN Ok(ArrayV([i \in 1..Len(elem) |-> AsFrac(elem[i])]))
        ELSE Ok(ArrayV(elem))
    ELSE IF \A i \in 1..Len(elem) : elem[i].t \in {"none", "closure", "builtin", "struct", "num", "bool"}
        THEN Ok(ArrayV(elem))
    ELSE IF \A i \in 1..Len(elem) :
               elem[i].t = "array" /\ Len(elem[i].elems) = Len(elem[1].elems)
        THEN Ok(ArrayV(elem))
    ELSE Raise("Unmodelled")

\* sequence[i] with Python's index rules on a sequence of length Len(s)
PyIndex(s, i) ==
    IF 0 <= i /\ i < Len(s) THEN Ok(s[i + 1])
    ELSE IF -Len(s) <= i /\ i < 0 THEN Ok(s[Len(s) + i + 1])
    ELSE Raise("IndexError")

Subscript(v, i) ==
    CASE v.t = "array" -> PyIndex(v.elems, i)
      [] v.t = "tuple2" -> PyIndex(<<v.head, v.tail>>, i)
      [] v.t = "tuple0" -> Raise("IndexError")
      [] v.t \in {"num", "bool", "none", "closure", "builtin"} -> Raise("TypeError")
      [] OTHER -> Raise("Unmodelled")

\* head (src/interpreter.py:170-171) and tail (174-175)
head(l) == Subscript(l, 0)
tail(l) == Subscript(l, 1)

\* the lambda of '[]' : v1[int(v2)] (src/interpreter.py:218)
IndexOp(v1, v2) ==
    IF v2.t \in {"none", "closure", "builtin", "struct", "tuple0", "tuple2"}
        THEN Raise("TypeError")
    ELSE IF v2.t \in {"array", "str"} THEN Raise("Unmodelled")
    ELSE Subscript(v1, Trunc(AsFrac(v2)))

Logic(op, v1, v2) ==
    IF v1.t = "array" \/ v2.t = "array" THEN Raise("Unmodelled")
    ELSE CASE op = "AND" -> Ok(IF Truthy(v1) THEN v2 ELSE v1)
           [] op = "OR" -> Ok(IF Truthy(v1) THEN v1 ELSE v2)
           [] op = "NAND" -> Ok(BoolV(~(Truthy(v1) /\ Truthy(v2))))
           [] op = "NOR" -> Ok(BoolV(~(Truthy(v1) \/ Truthy(v2))))
           [] op = "IMP" -> Ok(IF ~Truthy(v1) THEN BoolV(TRUE) ELSE v2)

BinaryPrims ==
    {"+", "-", "*", "/", "<", ">", "<=", ">=", "=", "!=", "EQ", "NEQ", "XOR",
     "AND", "OR", "NAND", "NOR", "IMP", "cons", "[]"}
UnaryPrims == {"NOT", "head", "tail"}
VariadicPrims == {"list", "array"}

\* names main() defines (src/interpreter.py:189-218), in order
BuiltinNames ==
    <<"+", "-", "*", "/", "<", ">", "<=", ">=", "=", "!=", "EQ", "NEQ", "XOR",
      "AND", "OR", "NAND", "NOR", "IMP", "NOT", "list", "cons", "nil", "head",
      "tail", "array", "[]">>

BuiltinValue(name) == IF name = "nil" THEN NilV ELSE PrimV(name)

\* calling the host function bound to a builtin name with the argument
\* tuple args; a wrong number of arguments is Python's TypeError
ApplyPrim(name, args) ==
    IF name \in BinaryPrims /\ Len(args) # 2 THEN Raise("TypeError")
    ELSE IF name \in UnaryPrims /\ Len(args) # 1 THEN Raise("TypeError")
    ELSE CASE name \in {"+", "-", "*", "/"} -> Arith(name, args[1], args[2])
           [] name \in {"<", ">", "<=", ">="} -> Compare(name, args[1], args[2])
           [] name \in {"=", "EQ"} -> Equal(FALSE, args[1], args[2])
           [] name \in {"!=", "NEQ", "XOR"} -> Equal(TRUE, args[1], args[2])
           [] name \in {"AND", "OR", "NAND", "NOR", "IMP"} -> Logic(name, args[1], args[2])
           [] name = "NOT" ->
                IF args[1].t = "array" THEN Raise("Unmodelled")
                ELSE Ok(BoolV(~Truthy(args[1])))
           [] name = "list" -> Ok(make_list(args))
           [] name = "cons" -> Ok(PairV(args[1], args[2]))
           [] name = "head" -> head(args[1])
           [] name = "tail" -> tail(args[1])
           [] name = "array" -> make_array(args)
           [] name = "[]" -> IndexOp(args[1], args[2])

\* -------------------------------------------------------------- evaluator
\* Outcome of eval: k ("ok" or the exception raised), the value, the store
R(k, v, h) == [k |-> k, v |-> v, h |-> h]

\* Struct.__contains__ (src/interpreter.py:52-58), and `name in v` for the
\* other Python values a target or a parent can be
RECURSIVE Contains(_, _, _)
Contains(h, v, name) ==
    CASE v.t = "struct" ->
            IF name \in Names(h, v.vars) THEN Ok(TRUE)
            ELSE IF Truthy(v.parent) THEN Contains(h, v.parent, name)
            ELSE Ok(FALSE)
      [] v.t \in {"tuple0", "tuple2"} -> Ok(FALSE)
      [] v.t \in {"none", "num", "bool", "closure", "builtin"} -> Raise("TypeError")
      [] OTHER -> Raise("Unmodelled")

\* a lookup that asks the parent before the struct's own fields
RECURSIVE GetItemParentFirst(_, _, _)
GetItemParentFirst(h, v, name) ==
    CASE v.t = "struct" ->
            IF Truthy(v.parent) /\ Contains(h, v.parent, name) = Ok(TRUE)
                THEN GetItemParentFirst(h, v.parent, name)
            ELSE IF name \in Names(h, v.vars) THEN Ok(h.dicts[v.vars][name])
            ELSE Raise("KeyError")
      [] OTHER -> Raise("TypeError")

\* Struct.__getitem__ followed by .value (src/interpreter.py:60-66), and
\* v[name] for the other Python values
RECURSIVE GetItem(_, _, _)
GetItem(h, v, name) ==
    CASE v.t = "struct" ->
            IF name \in Names(h, v.vars) THEN Ok(h.dicts[v.vars][name])
            ELSE IF Truthy(v.parent) THEN GetItem(h, v.parent, name)
            ELSE Raise("KeyError")
      [] v.t \in {"tuple0", "tuple2", "none", "num", "bool", "closure", "builtin"} ->
            Raise("TypeError")
      [] OTHER -> Raise("Unmodelled")

\* dynamic scoping: the parameters are pushed on the caller's scope
CalleeScopeDynamic(closure, caller_env) == caller_env

\* the scope a call of the closure pushes its parameters on:
\* self.parent_env (src/interpreter.py:30)
CalleeScope(closure, caller_env) == closure.parent_env

\* capture by copy: the closure gets a snapshot of the current scope
CaptureScopeCopy(h, env) ==
    [h |-> [h EXCEPT !.dicts = Append(@, h.dicts[h.scopes[env].vars]),
                     !.scopes = Append(@, [h.scopes[env] EXCEPT
                                              !.vars = Len(h.dicts) + 1])],
     env |-> Len(h.scopes) + 1]

\* what a lambda captures: the current scope itself (src/interpreter.py:134)
CaptureScope(h, env) == [h |-> h, env |-> env]

\* a local-binding that declares nothing and works on the current scope
LocalScopeMerged(h, env, name) == [h |-> h, env |-> env]

\* the scope of a local-binding (src/interpreter.py:95)
LocalScope(h, env, name) == push(h, env, {name})

\* an assignment that stores only into a declared name
AssignCellDeclaredOnly(h, env, name, res) ==
    IF EnvContains(h, env, name) THEN EnvSet(h, env, name, res) ELSE h

\* env[name].value = res of an assignment (src/interpreter.py:79)
AssignCell(h, env, name, res) == EnvSet(h, env, name, res)

\* define(env, name, val) (src/interpreter.py:182-183)
define(h, env, name, val) == EnvSet(h, env, name, val)

\* a struct whose vars is a copy of the scope's dict
MakeStructCopy(h, env, parent) ==
    [h |-> [h EXCEPT !.dicts = Append(@, h.dicts[h.scopes[env].vars])],
     s |-> Struct(Len(h.dicts) + 1, parent)]

\* Struct(env.vars, parent) (src/interpreter.py:145): the struct's vars is
\* the dict of the scope itself
MakeStruct(h, env, parent) == [h |-> h, s |-> Struct(h.scopes[env].vars, parent)]

\* the initializers taken last to first
InitOrderReversed(initializers) ==
    [i \in 1..Len(initializers) |-> initializers[Len(initializers) + 1 - i]]

\* the order in which the initializers are evaluated (src/interpreter.py:147)
InitOrder(initializers) == initializers

\* the slice taken one argument too late
RestSliceOffByOne(arg_names, arg_values) ==
    SubSeq(arg_values, Len(arg_names) + 1, Len(arg_values))

\* arg_values[len(self.arg_names) - 1:] (src/interpreter.py:36)
RestSlice(arg_names, arg_values) ==
    SubSeq(arg_values, Len(arg_names), Len(arg_values))

SeqRange(s) == {s[i] : i \in 1..Len(s)}

\* env[arg_names[i]].value = arg_values[i] for i = from .. upto (1-based)
RECURSIVE BindPositional(_, _, _, _, _, _)
BindPositional(h, env, arg_names, arg_values, from, upto) ==
    IF from > upto THEN h
    ELSE BindPositional(EnvSet(h, env, arg_names[from], arg_values[from]),
                        env, arg_names, arg_values, from + 1, upto)

Min(a, b) == IF a < b THEN a ELSE b

\* the binding of the parameters in Closure.__call__ (src/interpreter.py:32-39)
BindArgs(h, env, closure, arg_values) ==
    LET k == Len(closure.arg_names)
        n == Len(arg_values)
    IN IF closure.rest_args THEN
           IF n < k - 1 THEN
               [k |-> "IndexError",
                h |-> BindPositional(h, env, closure.arg_names, arg_values, 1, n)]
           ELSE IF k = 0 THEN [k |-> "IndexError", h |-> h]
           ELSE LET h1 == BindPositional(h, env, closure.arg_names, arg_values, 1, k - 1)
                    a == make_array(RestSlice(closure.arg_names, arg_values))
                IN IF a.k # "ok" THEN [k |-> a.k, h |-> h1]
                   ELSE [k |-> "ok", h |-> EnvSet(h1, env, closure.arg_names[k], a.v)]
       ELSE [k |-> "ok",
             h |-> BindPositional(h, env, closure.arg_names, arg_values, 1, Min(k, n))]

\* int(v) of a loop count
IntOf(v) ==
    CASE v.t \in {"num", "bool"} -> Ok(Trunc(AsFrac(v)))
      [] v.t \in {"array", "str"} -> Raise("Unmodelled")
      [] OTHER -> Raise("TypeError")

RECURSIVE eval(_, _, _)
RECURSIVE EvalList(_, _, _, _)
RECURSIVE EvalEach(_, _, _, _)
RECURSIVE EvalLoop(_, _, _, _, _)
RECURSIVE EvalWhile(_, _, _, _, _)
RECURSIVE ClosureCall(_, _, _, _)

\* [eval(e, env) for e in exprs]: left to right, acc the values so far
EvalList(exprs, env, h, acc) ==
    IF Len(exprs) = 0 THEN R("ok", acc, h)
    ELSE LET r == eval(Head(exprs), env, h)
         IN IF r.k # "ok" THEN r
            ELSE EvalList(Tail(exprs), env, r.h, Append(acc, r.v))

\* for expression in expressions: result = eval(expression, env)
EvalEach(exprs, env, h, result) ==
    IF Len(exprs) = 0 THEN R("ok", result, h)
    ELSE LET r == eval(Head(exprs), env, h)
         IN IF r.k # "ok" THEN r
            ELSE EvalEach(Tail(exprs), env, r.h, r.v)

\* for _ in range(n): result = eval(body, env)
EvalLoop(body, env, h, n, result) ==
    IF n <= 0 THEN R("ok", result, h)
    ELSE LET r == eval(body, env, h)
         IN IF r.k # "ok" THEN r
            ELSE EvalLoop(body, env, r.h, n - 1, r.v)

\* while eval(condition, env): result = eval(body, env)
EvalWhile(condition, body, env, h, result) ==
    LET c == eval(condition, env, h)
    IN IF c.k # "ok" THEN c
       ELSE IF c.v.t = "array" THEN R("Unmodelled", NoneV, c.h)
       ELSE IF ~Truthy(c.v) THEN R("ok", result, c.h)
       ELSE LET r == eval(body, env, c.h)
            IN IF r.k # "ok" THEN r
               ELSE EvalWhile(condition, body, env, r.h, r.v)

\* Closure.__call__ (src/interpreter.py:29-41); caller_env is the scope of
\* the call site, which the code does not pass
ClosureCall(closure, arg_values, caller_env, h) ==
    LET p == push(h, CalleeScope(closure, caller_env), SeqRange(closure.arg_names))
        h1 == [p.h EXCEPT !.calls = Append(@, [closure |-> closure,
                                                arg_values |-> arg_values,
                                                caller |-> caller_env,
                                                scope |-> p.env])]
        b == BindArgs(h1, p.env, closure, arg_values)
    IN IF b.k # "ok" THEN R(b.k, NoneV, b.h)
       ELSE eval(closure.body, p.env, b.h)

\* eval(expr, env) (src/interpreter.py:69-161)
eval(expr, env, h) ==
    CASE expr.tag = "NumberLiteral" -> R("ok", Float(expr.num), h)
      [] expr.tag = "BoolLiteral" -> R("ok", BoolV(expr.tok = "TRUE"), h)
      [] expr.tag = "StringLiteral" -> R("ok", StrV(expr.str), h)
      [] expr.tag = "CharLiteral" -> R("ok", StrV(expr.chr), h)
      [] expr.tag = "ArrayLiteral" ->
            LET r == EvalList(expr.elements, env, h, << >>)
            IN IF r.k # "ok" THEN r
               ELSE LET a == make_array(r.v) IN R(a.k, a.v, r.h)
      [] expr.tag = "AssignExpression" ->
            LET r == eval(expr.expression, env, h)
            IN IF r.k # "ok" THEN r
               ELSE R("ok", r.v, AssignCell(r.h, env, expr.name, r.v))
      [] expr.tag = "VariableExpression" ->
            IF EnvContains(h, env, expr.name)
                THEN R("ok", EnvGet(h, env, expr.name), h)
            ELSE IF Truthy(h.scopes[env].containing_struct) THEN
                LET g == GetItem(h, h.scopes[env].containing_struct, expr.name)
                IN R(g.k, g.v, h)
            ELSE R("KeyError", NoneV, h)
      [] expr.tag = "LockExpression" -> eval(expr.body, env, h)
      [] expr.tag = "LocalExpression" ->
            LET p == LocalScope(h, env, expr.assignment.name)
                r == eval(expr.assignment, p.env, p.h)
            IN IF r.k # "ok" THEN r ELSE eval(expr.body, p.env, r.h)
      [] expr.tag = "SequenceExpression" -> EvalEach(expr.expressions, env, h, NoneV)
      [] expr.tag = "LoopExpression" ->
            LET r == eval(expr.count, env, h)
            IN IF r.k # "ok" THEN r
               ELSE LET n == IntOf(r.v)
                    IN IF n.k # "ok" THEN R(n.k, NoneV, r.h)
                       ELSE EvalLoop(expr.body, env, r.h, n.v, NoneV)
      [] expr.tag = "WhileExpression" ->
            EvalWhile(expr.condition, expr.wbody, env, h, NoneV)
      [] expr.tag = "DoWhileExpression" ->
            LET r == eval(expr.dbody, env, h)
            IN IF r.k # "ok" THEN r
               ELSE EvalWhile(expr.condition, expr.dbody, env, r.h, r.v)
      [] expr.tag = "IfExpression" ->
            LET r == eval(expr.condition, env, h)
            IN IF r.k # "ok" THEN r
               ELSE IF r.v.t = "array" THEN R("Unmodelled", NoneV, r.h)
               ELSE IF Truthy(r.v) THEN eval(expr.then_body, env, r.h)
               ELSE IF expr.else_body.tag # "None" THEN eval(expr.else_body, env, r.h)
               ELSE R("ok", NoneV, r.h)
      [] expr.tag = "LambdaExpression" ->
            LET c == CaptureScope(h, env)
            IN R("ok", Closure(c.env, expr.arg_names, expr.body, expr.rest_args), c.h)
      [] expr.tag = "CallExpression" ->
            LET c == eval(expr.f, env, h)
            IN IF c.k # "ok" THEN c
               ELSE LET a == EvalList(expr.arg_exprs, env, c.h, << >>)
                    IN IF a.k # "ok" THEN a
                       ELSE CASE c.v.t = "closure" -> ClosureCall(c.v, a.v, env, a.h)
                              [] c.v.t = "builtin" ->
                                    LET f == ApplyPrim(c.v.prim, a.v)
                                    IN R(f.k, f.v, a.h)
                              [] OTHER -> R("TypeError", NoneV, a.h)
      [] expr.tag = "StructExpression" ->
            LET pr == IF expr.parent_expr.tag # "None" THEN eval(expr.parent_expr, env, h)
                      ELSE R("ok", NoneV, h)
            IN IF pr.k # "ok" THEN pr
               ELSE LET p == push(pr.h, env,
                                  {expr.initializers[i].name :
                                      i \in 1..Len(expr.initializers)})
                        m == MakeStruct(p.h, p.env, pr.v)
                        h1 == SetContainingStruct(m.h, p.env, m.s)
                        r == EvalEach(InitOrder(expr.initializers), p.env, h1, NoneV)
                    IN IF r.k # "ok" THEN r
                       ELSE R("ok", r.h.scopes[p.env].containing_struct, r.h)
      [] expr.tag = "MemberAccessExpression" ->
            LET t == IF expr.expr.tag # "None" THEN eval(expr.expr, env, h)
                     ELSE R("ok", h.scopes[env].containing_struct, h)
            IN IF t.k # "ok" THEN t
               ELSE LET c == Contains(t.h, t.v, expr.member)
                    IN IF c.k # "ok" THEN R(c.k, NoneV, t.h)
                       ELSE IF ~c.v THEN R("KeyError", NoneV, t.h)
                       ELSE LET g == GetItem(t.h, t.v, expr.member)
                            IN R(g.k, g.v, t.h)
      [] OTHER -> R("NotImplementedError", NoneV, h)

\* --------------------------------------------------------------- programs
\* The inputs of the model: syntax trees as parse_expr delivers them.  An
\* infix operator is a call of the variable of that name.
N(k) == NumberLiteral(k)
V(name) == VariableExpression(name)
Bin(op, a, b) == CallExpression(V(op), <<a, b>>)
Set(name, e) == AssignExpression(name, e)
Fun(arg_names, body) == LambdaExpression(arg_names, body, FALSE)
VarFun(arg_names, body) == LambdaExpression(arg_names, body, TRUE)
Dot(e, member) == MemberAccessExpression(e, member)

\* the program file: declares the globals the REPL inputs work on
Prelude ==
    SequenceExpression(<<
        Set("x", N(1)),
        Set("f", Fun(<< >>, V("x"))),
        Set("set", Fun(<<"v">>, Set("x", V("v")))),
        Set("p", StructExpression(
                    <<Set("a", N(1)),
                      Set("seta", Fun(<<"v">>, Set("a", V("v"))))>>, NoExpr)),
        Set("c", StructExpression(
                    <<Set("b", Bin("+", Dot(NoExpr, "a"), N(1)))>>, V("p"))),
        Set("d", StructExpression(<<Set("a", N(5))>>, V("c"))),
        Set("vf", VarFun(<<"y", "rest">>, V("rest"))),
        \* cnt := local n = 0; \() -> n := n + 1
        Set("cnt", LocalExpression(Set("n", N(0)),
                      Fun(<< >>, Set("n", Bin("+", V("n"), N(1))))))
    >>)

FileNames == {"prelude"}

ReplNames ==
    {"x=2", "f()", "set7", "dyn", "lex", "shadow", "shadow2", "undecl",
     "undecl2", "p.a", "c.a", "c.b", "d.a", "d.b", "c.zz", "seta3", "mkc",
     "vf0", "vf1", "vf3", "r0", "r2", "call1", "div0", "div", "idx",
     "ord", "fwd", "fwdx", "inh", "ifnone", "loop", "cnt()",
     "vfb", "while", "dowhile", "str", "lock"}

Prog(name) ==
    CASE name = "prelude" -> Prelude
      [] name = "x=2" -> Set("x", N(2))
      [] name = "f()" -> CallExpression(V("f"), << >>)
      [] name = "set7" -> CallExpression(V("set"), <<N(7)>>)
      \* local x = 9; f()
      [] name = "dyn" ->
            LocalExpression(Set("x", N(9)), CallExpression(V("f"), << >>))
      \* local x = 1; local f = \() -> x; local x = 2; f()
      [] name = "lex" ->
            LocalExpression(Set("x", N(1)),
              LocalExpression(Set("f", Fun(<< >>, V("x"))),
                LocalExpression(Set("x", N(2)), CallExpression(V("f"), << >>))))
      \* local x = 1; local x = x + 1; x
      [] name = "shadow" ->
            LocalExpression(Set("x", N(1)),
              LocalExpression(Set("x", Bin("+", V("x"), N(1))), V("x")))
      \* local x = 1; { local x = 2; x := x + 1 }; x
      [] name = "shadow2" ->
            LocalExpression(Set("x", N(1)),
              SequenceExpression(<<
                LocalExpression(Set("x", N(2)), Set("x", Bin("+", V("x"), N(1)))),
                V("x")>>))
      [] name = "undecl" -> Set("z", N(5))
      \* local a = 1; w := a
      [] name = "undecl2" -> LocalExpression(Set("a", N(1)), Set("w", V("a")))
      [] name = "p.a" -> Dot(V("p"), "a")
      [] name = "c.a" -> Dot(V("c"), "a")
      [] name = "c.b" -> Dot(V("c"), "b")
      [] name = "d.a" -> Dot(V("d"), "a")
      [] name = "d.b" -> Dot(V("d"), "b")
      [] name = "c.zz" -> Dot(V("c"), "zz")
      [] name = "seta3" -> CallExpression(Dot(V("p"), "seta"), <<N(3)>>)
      \* c := extend p { b = .a + 1 }
      [] name = "mkc" ->
            Set("c", StructExpression(
                        <<Set("b", Bin("+", Dot(NoExpr, "a"), N(1)))>>, V("p")))
      [] name = "vf0" -> CallExpression(V("vf"), << >>)
      [] name = "vf1" -> CallExpression(V("vf"), <<N(1)>>)
      [] name = "vf3" -> CallExpression(V("vf"), <<N(1), N(2), N(3)>>)
      [] name = "r0" -> CallExpression(VarFun(<<"rest">>, V("rest")), << >>)
      [] name = "r2" ->
            CallExpression(VarFun(<<"a", "b", "rest">>, V("rest")),
                           <<N(4), Fun(<< >>, N(0)), N(6), N(7)>>)
      [] name = "call1" -> CallExpression(N(1), <<N(2)>>)
      [] name = "div0" -> Bin("/", N(1), N(0))
      [] name = "div" -> Bin("/", N(6), N(4))
      [] name = "idx" -> Bin("[]", CallExpression(V("array"), <<N(1), N(2)>>), N(5))
      \* o := struct { a = 1; b = a + 1 }
      [] name = "ord" ->
            Set("o", StructExpression(
                        <<Set("a", N(1)), Set("b", Bin("+", V("a"), N(1)))>>, NoExpr))
      \* q := struct { a = b; b = 1 }
      [] name = "fwd" ->
            Set("q", StructExpression(<<Set("a", V("b")), Set("b", N(1))>>, NoExpr))
      \* q := struct { a = x; x = 1 }
      [] name = "fwdx" ->
            Set("q", StructExpression(<<Set("a", V("x")), Set("x", N(1))>>, NoExpr))
      \* o := extend p { b = a + 1 }
      [] name = "inh" ->
            Set("o", StructExpression(<<Set("b", Bin("+", V("a"), N(1)))>>, V("p")))
      [] name = "ifnone" -> IfExpression(BoolLiteral("FALSE"), N(1), NoExpr)
      \* loop 2 do x := x + 1
      [] name = "vfb" ->
            CallExpression(V("vf"), <<N(1), BoolLiteral("TRUE"), N(2)>>)
      \* while x < 3 do x := x + 1
      [] name = "while" ->
            WhileExpression(Bin("<", V("x"), N(3)), Set("x", Bin("+", V("x"), N(1))))
      \* do x := x + 1 while FALSE
      [] name = "dowhile" ->
            DoWhileExpression(BoolLiteral("FALSE"), Set("x", Bin("+", V("x"), N(1))))
      [] name = "str" -> CallExpression(StringLiteral("abc"), <<CharLiteral("a")>>)
      [] name = "lock" -> LockExpression("m", Set("x", N(2)))
      [] name = "cnt()" -> CallExpression(V("cnt"), << >>)
      [] name = "loop" -> LoopExpression(N(2), Set("x", Bin("+", V("x"), N(1))))

\* ------------------------------------------------------------------- main
VARIABLES
    args,    \* the command line: [file |-> a file name or "", repl |-> BOOLEAN]
    pc,      \* position in main(): "define", "file", "repl?", "repl",
             \* "exit" (returned) or "crashed" (uncaught exception)
    h,       \* the store: every Environment, dict and Cell
    inp,     \* the input evaluated last ("" before the first)
    out,     \* its outcome [k |-> "ok" or the exception, v |-> value]
    nread,   \* number of inputs the REPL has read
    console  \* what the loop printed for each input: "res" or "terr"

vars == <<args, pc, h, inp, out, nread, console>>

Init ==
    /\ args \in [file : FileNames \cup {""}, repl : BOOLEAN]
    /\ pc = "define"
    /\ h = EmptyStore
    /\ inp = ""
    /\ out = Ok(NoneV)
    /\ nread = 0
    /\ console = << >>

\* the define calls of main(), in order (src/interpreter.py:189-218)
RECURSIVE DefineAll(_, _)
DefineAll(st, i) ==
    IF i > Len(BuiltinNames) THEN st
    ELSE DefineAll(define(st, RootEnv, BuiltinNames[i], BuiltinValue(BuiltinNames[i])),
                   i + 1)

Define ==
    /\ pc = "define"
    /\ h' = DefineAll(h, 1)
    /\ pc' = "file"
    /\ UNCHANGED <<args, inp, out, nread, console>>

\* if args.file: eval(parse_expr(f.read()), env), no exception handled
RunFile ==
    /\ pc = "file"
    /\ args.file # ""
    /\ LET r == eval(Prog(args.file), RootEnv, h)
       IN /\ h' = r.h
          /\ inp' = args.file
          /\ out' = [k |-> r.k, v |-> r.v]
          /\ pc' = IF r.k = "ok" THEN "repl?" ELSE "crashed"
    /\ UNCHANGED <<args, nread, console>>

SkipFile ==
    /\ pc = "file"
    /\ args.file = ""
    /\ pc' = "repl?"
    /\ UNCHANGED <<args, h, inp, out, nread, console>>

\* if args.repl: while True
EnterRepl ==
    /\ pc = "repl?"
    /\ pc' = IF args.repl THEN "repl" ELSE "exit"
    /\ UNCHANGED <<args, h, inp, out, nread, console>>

\* a loop that also handles KeyError
CaughtWithKeyError(k) == k \in {"TypeError", "KeyError"}

\* the exceptions the loop handles by reporting and going on
\* (src/interpreter.py:235-236)
Caught(k) == k = "TypeError"

\* one turn of the loop on an input that parses (src/interpreter.py:228-236)
ReplStep(name) ==
    /\ pc = "repl"
    /\ nread < MaxInputs
    /\ LET r == eval(Prog(name), RootEnv, h)
       IN /\ h' = r.h
          /\ inp' = name
          /\ out' = [k |-> r.k, v |-> r.v]
          /\ pc' = IF r.k = "ok" \/ Caught(r.k) THEN "repl" ELSE "crashed"
          /\ console' = IF r.k = "ok" THEN Append(console, "res")
                        ELSE IF Caught(r.k) THEN Append(console, "terr")
                        ELSE console
    /\ nread' = nread + 1
    /\ UNCHANGED args

\* one turn on an input parse_expr rejects
ReplParseFailure ==
    /\ pc = "repl"
    /\ nread < MaxInputs
    /\ inp' = "?"
    /\ out' = Raise("ParseFailure")
    /\ pc' = IF Caught("ParseFailure") THEN "repl" ELSE "crashed"
    /\ console' = IF Caught("ParseFailure") THEN Append(console, "terr") ELSE console
    /\ nread' = nread + 1
    /\ UNCHANGED <<args, h>>

\* input() raises EOFError or KeyboardInterrupt: break
ReplEOF ==
    /\ pc = "repl"
    /\ pc' = "exit"
    /\ UNCHANGED <<args, h, inp, out, nread, console>>

Next ==
    \/ Define
    \/ RunFile
    \/ SkipFile
    \/ EnterRepl
    \/ \E name \in ReplNames : ReplStep(name)
    \/ ReplParseFailure
    \/ ReplEOF

Spec == Init /\ [][Next]_vars

\* no evaluation of the model leaves the modelled fragment
NoUnmodelled == out.k # "Unmodelled"

\* ----------------------------------------------------------------- claims
RootDict == h.dicts[h.scopes[RootEnv].vars]
RootHas(name) == name \in DOMAIN RootDict

\* the value of target.member read by member access from the root scope
Member(st, target, member) == eval(Dot(V(target), member), RootEnv, st)

\* the dict x is declared in, seen from scope env (0: in none)
RECURSIVE DeclaringDict(_, _, _)
DeclaringDict(st, env, name) ==
    IF name \in Names(st, st.scopes[env].vars) THEN st.scopes[env].vars
    ELSE IF st.scopes[env].parent = 0 THEN 0
    ELSE DeclaringDict(st, st.scopes[env].parent, name)

\* C1: every closure call evaluates the body in a new scope whose parent is
\* the scope captured by the lambda, never the caller's: the scope pushed for
\* each call has the captured scope as parent, `local x = 1; local f = \() ->
\* x; local x = 2; f()` gives 1, and a global f reading x called under
\* `local x = 9` gives the global x.
C1_LexicalScope ==
    /\ \A i \in 1..Len(h.calls) :
          h.scopes[h.calls[i].scope].parent = h.calls[i].closure.parent_env
    /\ (inp = "lex" => out = Ok(NumV(1)))
    /\ (inp = "dyn" /\ out.k = "ok" => out.v = RootDict["x"])

\* a call whose caller's chain declares another Cell x than the defining one
C1_Witness ==
    /\ inp = "dyn"
    /\ out.k = "ok"
    /\ \E i \in 1..Len(h.calls) :
          LET c == h.calls[i]
          IN /\ c.caller # c.closure.parent_env
             /\ DeclaringDict(h, c.caller, "x") # 0
             /\ DeclaringDict(h, c.caller, "x") # DeclaringDict(h, c.closure.parent_env, "x")
             /\ h.dicts[DeclaringDict(h, c.caller, "x")]["x"] # out.v

\* the scope captured by the closure held in global cnt
CntScope(st) == st.dicts[st.scopes[RootEnv].vars]["cnt"].parent_env

C2_Step ==
    /\ (inp' = "f()" /\ nread' = nread + 1 /\ out'.k = "ok"
          => RootHas("x") /\ out'.v = RootDict["x"])
    /\ (inp' = "set7" /\ nread' = nread + 1 /\ out'.k = "ok"
          => h'.dicts[h'.scopes[RootEnv].vars]["x"] = NumV(7))
    /\ (inp' = "cnt()" /\ nread' = nread + 1 /\ out'.k = "ok"
          => /\ out'.v = FAdd(h.dicts[h.scopes[CntScope(h)].vars]["n"], NumV(1))
             /\ h'.dicts[h'.scopes[CntScope(h)].vars]["n"] = out'.v)

\* C2: a closure shares its defining scope: a call of f (made by `f := \() ->
\* x`) returns the value x has when the call is made, whatever was assigned
\* to x since; an assignment to an outer variable made in a closure body
\* (set, cnt) is in the shared scope after the call.
C2_ReferenceCapture == [][C2_Step]_vars

\* f, created when x was 1, called after x was reassigned
C2_Witness == inp = "f()" /\ out.k = "ok" /\ out.v # NumV(1) /\ out.v = RootDict["x"]

\* the dict of the k-th scope from the end of the store (0: the last pushed)
LastDict(k) == h.dicts[h.scopes[Len(h.scopes) - k].vars]

\* C3 as stated: `local x = 1; local x = x + 1; x` evaluates to 2 and the
\* outer x still holds 1.
C3_Original ==
    inp = "shadow" => out = Ok(NumV(2)) /\ LastDict(1)["x"] = NumV(1)

\* C3 amended: `local x = 1; local x = x + 1; x` does not give 2: the
\* initializer reads the inner x's own still absent Cell and `+` fails with
\* TypeError; the outer x's Cell holds 1 afterwards, as it does after an
\* inner `local x = 2` block that assigns x and ends normally.
C3_Amended ==
    /\ (inp = "shadow" =>
          /\ out.k = "TypeError"
          /\ LastDict(1)["x"] = NumV(1)
          /\ LastDict(0)["x"] = NoneV)
    /\ (inp = "shadow2" =>
          /\ out = Ok(NumV(1))
          /\ LastDict(1)["x"] = NumV(1)
          /\ LastDict(0)["x"] = NumV(3))

C3_Witness == inp = "shadow" /\ out.k = "TypeError" /\ pc = "repl"

RECURSIVE ParentChain(_)
ParentChain(s) ==
    <<s.vars>> \o (IF s.parent.t = "struct" THEN ParentChain(s.parent) ELSE << >>)

StructGlobals == {"p", "c", "d", "o", "q"}
MemberNames == {"a", "b", "seta", "x", "zz"}

\* C5: member access on a struct gives the value of its own field when it has
\* one, else of the nearest ancestor having the field, and fails with KeyError
\* (UnknownMember) when no struct of the chain has it; `extend p { b = .a +
\* 1 }` with p.a = 1 has .b = 2.
C5_MemberResolution ==
    /\ \A g \in StructGlobals : \A m \in MemberNames :
          RootHas(g) /\ RootDict[g].t = "struct" =>
            LET chain == ParentChain(RootDict[g])
                owners == {i \in 1..Len(chain) : m \in Names(h, chain[i])}
                r == Member(h, g, m)
            IN IF owners = {} THEN r.k = "KeyError"
               ELSE /\ r.k = "ok"
                    /\ \E i \in owners :
                          /\ \A j \in owners : i <= j
                          /\ r.v = h.dicts[chain[i]][m]
    /\ (inp \in {"mkc", "prelude"} /\ out.k = "ok" =>
          Member(h, "c", "b").v = FAdd(Member(h, "p", "a").v, NumV(1)))

\* d shadows the field a of its ancestors and inherits b through two parents
C5_Witness ==
    /\ RootHas("d") /\ RootHas("p") /\ RootHas("c")
    /\ Member(h, "d", "a") = R("ok", NumV(5), h)
    /\ Member(h, "p", "a") = R("ok", NumV(1), h)
    /\ Member(h, "c", "b") = R("ok", NumV(2), h)
    /\ Member(h, "d", "b") = R("ok", NumV(2), h)
    /\ Member(h, "d", "zz").k = "KeyError"

\* C6: the vars of a struct is the very dict of the scope pushed for its
\* literal: for every such scope the struct's vars is the scope's dict and a
\* field read through the struct equals the variable read through the scope;
\* after the closure p.seta assigned a through that scope, p.a reads it back.
C6_StructAliasesScope ==
    /\ \A s \in 1..Len(h.scopes) :
          LET cs == h.scopes[s].containing_struct
          IN cs.t = "struct" =>
               /\ cs.vars = h.scopes[s].vars
               /\ \A n \in Names(h, h.scopes[s].vars) :
                     GetItem(h, cs, n) = Ok(EnvGet(h, s, n))
    /\ (inp = "seta3" /\ out.k = "ok" => Member(h, "p", "a").v = NumV(3))

C6_Witness ==
    /\ inp = "p.a" /\ out = Ok(NumV(3))
    /\ \E s \in 1..Len(h.scopes) :
          /\ h.scopes[s].containing_struct = RootDict["p"]
          /\ EnvGet(h, s, "a") = NumV(3)

C8_Step ==
    /\ nread' = nread + 1 =>
          /\ out'.k = "TypeError" =>
                /\ pc' = "repl"
                /\ console' = Append(console, "terr")
                /\ \A n \in DOMAIN RootDict :
                      n \in DOMAIN h'.dicts[h'.scopes[RootEnv].vars]
                /\ Len(h'.scopes) >= Len(h.scopes)
          /\ out'.k \in {"KeyError", "IndexError", "ParseFailure"} =>
                pc' = "crashed" /\ console' = console
    /\ pc = "crashed" => UNCHANGED vars

\* C8: in the REPL a TypeError is reported and the loop stays ready to read
\* the next input with the environment kept; a KeyError (undeclared variable,
\* unknown member), an IndexError or a parse failure ends the process, and
\* nothing is read afterwards.
C8_ReplErrors == [][C8_Step]_vars

\* an input evaluated and printed after a TypeError was reported
C8_Witness ==
    /\ Len(console) = 2 /\ console[1] = "terr" /\ console[2] = "res"
    /\ pc = "repl"

\* C9: `/` on two Numbers with a zero divisor returns a value instead of
\* failing.
C9_Original == inp = "div0" => out.k = "ok"

\* the value the global q has for field m
QField(m) == Member(h, "q", m).v

\* C10: the initializers of a struct literal run in listed order: one may
\* read the fields of earlier ones (o.b = o.a + 1) and inherited fields, and
\* reading the field of a later one gives the absent value None, also when an
\* outer scope declares the name.
C10_InitializerOrder ==
    /\ (inp = "ord" => /\ out.k = "ok"
                       /\ Member(h, "o", "a").v = NumV(1)
                       /\ Member(h, "o", "b").v = NumV(2))
    /\ (inp = "fwd" => out.k = "ok" /\ QField("a") = NoneV /\ QField("b") = NumV(1))
    /\ (inp = "fwdx" => out.k = "ok" /\ QField("a") = NoneV /\ QField("x") = NumV(1))
    /\ (inp = "inh" /\ out.k = "ok" =>
          Member(h, "o", "b").v = FAdd(Member(h, "p", "a").v, NumV(1)))

\* a later field read while an outer x is declared with a value
C10_Witness ==
    /\ inp = "fwdx" /\ out.k = "ok"
    /\ RootHas("x") /\ RootDict["x"].t = "num"
    /\ QField("a") = NoneV

====
